---- MODULE Spec2Model ----
(***************************************************************************)
(* tf_skein: the submitting process (YARNCluster.run, _await_termination,  *)
(* _shutdown in cluster.py), the init barrier as seen by a task            *)
(* (_spec_from_kv in _internal.py) and the port reservation generator      *)
(* (iter_available_sock_addrs in _internal.py).                            *)
(*                                                                         *)
(* The state machines share one module; each has its own specification     *)
(* and leaves the variables of the others at their idle values:            *)
(*   Spec         YARNCluster.run: validation, submit, poll loop, shutdown *)
(*   BarrierSpec  the tasks of one job publishing and waiting on the kv    *)
(*   BarrierFair  BarrierSpec with weak fairness of every task's wait      *)
(*   RepublishSpec  BarrierSpec with writes of other values to the keys    *)
(*   SockSpec     one lifetime of iter_available_sock_addrs                *)
(*   EnvSpec      one use of the xset_environ scope                        *)
(*   BuildSpec    _spec_from_iter and _spec_from_kv on the same job        *)
(***************************************************************************)
EXTENDS Integers, Sequences, FiniteSets, TLC

VARIABLES
    \* ---- YARNCluster.run / _await_termination / _shutdown
    task_specs,     \* run's argument: role key -> instances
    handling,       \* the exception run's caller is handling ("none": none)
    pc,             \* position of the submitting process
    final_status,   \* _await_termination's local
    containers,     \* _await_termination's local: container id -> state
    exc,            \* the exception in flight ("none": no exception)
    caught,         \* the except ConnectionError branch of the poll loop ran
    seen,           \* the final statuses the manager reported, in order
    rm_log,         \* the calls made to the resource manager, in order
    shutdown_args,  \* the status labels passed to app.shutdown, in order
    result,         \* what _await_termination returned to run
    scope,          \* the with _shutdown(...) block: "out", "in", "left"
    left_by,        \* how control left the block: "return" or the exception
    observed,       \* container id -> state in the latest poll that reported it
    dropped,        \* some poll did not report a container reported before
    shutdown_exc,   \* what app.shutdown raised ("none": it returned)
    \* ---- the init barrier
    num_workers,    \* --num-workers of the job's tasks
    num_ps,         \* --num-ps of the job's tasks
    num_evaluators, \* instances of the evaluator service
    kv,             \* the key-value store: key -> value
    tpc,            \* per task: "start", "waiting", "done"
    tpos,           \* per task: how many waits of _spec_from_kv returned
    spec,           \* per task: the cluster spec under construction
    \* ---- iter_available_sock_addrs
    gen,            \* the generator: created, running, suspended, closed, raised
    stack,          \* the ExitStack: the sockets entered, in order
    others,         \* ports held by other processes of the host
    yielded,        \* the endpoints yielded so far
    \* ---- xset_environ
    environ,        \* os.environ: name -> value
    kwargs,         \* xset_environ's arguments: <<name, value>> in dict order
    xpc,            \* the scope: "call", "inside", "left", "raised"
    xexc,           \* the exception that left xset_environ ("none": none)
    environ0,       \* os.environ when xset_environ was called
    updated,        \* the names os.environ.update(kwargs) has set
    \* ---- _spec_from_iter and _spec_from_kv side by side
    n_workers,      \* the num_workers both builders are called with
    n_ps,           \* the num_ps both builders are called with
    reserved,       \* the addresses the iterator still has to hand out
    kv_store,       \* the key-value store, every key published
    iter_spec,      \* _spec_from_iter's spec under construction
    iter_log,       \* the slots _spec_from_iter filled, in the order it drew
    kv_spec,        \* _spec_from_kv's spec under construction
    kv_log          \* the slots _spec_from_kv filled, in the order it waited

input_vars == <<task_specs, handling>>
run_vars == <<input_vars, pc, final_status, containers, exc, caught, seen,
              rm_log, shutdown_args, result, scope, left_by, observed,
              dropped, shutdown_exc>>
barrier_vars == <<num_workers, num_ps, num_evaluators, kv, tpc, tpos, spec>>
sock_vars == <<gen, stack, others, yielded>>
env_vars == <<environ, kwargs, xpc, xexc, environ0, updated>>
build_vars == <<n_workers, n_ps, reserved, kv_store, iter_spec, iter_log,
                kv_spec, kv_log>>
vars == <<run_vars, barrier_vars, sock_vars, env_vars, build_vars>>

EmptyMap == [x \in {} |-> x]

\* ------------------------------------------------------------------ bounds
MaxInstances == 2
MaxPolls == 3
MaxWorkers == 2
MaxPs == 1
NumPorts == 3
MaxSockets == 4
NumNames == 2

\* evaluator instances are asserted to be at most one
MaxEvaluators == 1

\* ------------------------------------------------------------------ idle
IdleRun ==
    /\ task_specs = EmptyMap
    /\ handling = "none"
    /\ scope = "out"
    /\ left_by = "none"
    /\ pc = "idle"
    /\ final_status = "UNDEFINED"
    /\ containers = EmptyMap
    /\ exc = "none"
    /\ caught = FALSE
    /\ seen = <<>>
    /\ rm_log = <<>>
    /\ shutdown_args = <<>>
    /\ result = <<>>
    /\ observed = EmptyMap
    /\ dropped = FALSE
    /\ shutdown_exc = "none"

IdleBarrier ==
    /\ num_workers = 0
    /\ num_ps = 0
    /\ num_evaluators = 0
    /\ kv = EmptyMap
    /\ tpc = EmptyMap
    /\ tpos = EmptyMap
    /\ spec = EmptyMap

IdleSock ==
    /\ gen = "idle"
    /\ stack = <<>>
    /\ others = {}
    /\ yielded = <<>>

IdleEnv ==
    /\ environ = EmptyMap
    /\ kwargs = <<>>
    /\ xpc = "idle"
    /\ xexc = "none"
    /\ environ0 = EmptyMap
    /\ updated = {}

IdleBuild ==
    /\ n_workers = 0
    /\ n_ps = 0
    /\ reserved = <<>>
    /\ kv_store = EmptyMap
    /\ iter_spec = EmptyMap
    /\ iter_log = <<>>
    /\ kv_spec = EmptyMap
    /\ kv_log = <<>>

\* ================================================================== run
FinalStatus == {"UNDEFINED", "SUCCEEDED", "FAILED", "KILLED"}
Terminal == FinalStatus \ {"UNDEFINED"}
Interruptions == {"KeyboardInterrupt", "SystemExit"}
\* what the caller of run may be handling while it calls run
Handled == {"none", "Error", "KeyboardInterrupt"}

all_task_types == {"chief", "worker", "ps", "evaluator"}
\* the keys a caller may pass: the four task types and one that is none of them
RoleKeys == all_task_types \cup {"master"}

\* the job specifications run is called with
TaskSpecs ==
    UNION {[ks -> 0..MaxInstances] : ks \in SUBSET RoleKeys}

\* defaultdict(lambda: TaskSpec.NONE, task_specs)[r].instances
Instances(ts, r) == IF r \in DOMAIN ts THEN ts[r] ELSE 0

\* a variant of the checks: at most one chief, instead of exactly one
ValidateAtMostOneChief(ts) ==
    IF ~(DOMAIN ts \subseteq all_task_types) THEN "ValueError"
    ELSE IF ~(Instances(ts, "evaluator") <= 1) THEN "AssertionError"
    ELSE IF ~(Instances(ts, "chief") <= 1) THEN "AssertionError"
    ELSE "ok"

\* the checks at the head of run: "ok" or the exception raised
Validate(ts) ==
    IF ~(DOMAIN ts \subseteq all_task_types) THEN "ValueError"
    ELSE IF ~(Instances(ts, "evaluator") <= 1) THEN "AssertionError"
    ELSE IF ~(Instances(ts, "chief") = 1) THEN "AssertionError"
    ELSE "ok"

ContainerIds == {"container_1", "container_2"}
ContainerStates == {"RUNNING", "SUCCEEDED"}
\* what app.get_containers() may return: the containers currently reported
ContainerReports ==
    UNION {[ids -> ContainerStates] : ids \in SUBSET ContainerIds}

\* a variant of the merge: the records are replaced by the latest report
MergeReplace(old, new) == new

\* for c in app.get_containers(): containers[c.id] = (c.state, ...)
Merge(old, new) ==
    [id \in DOMAIN old \cup DOMAIN new |->
        IF id \in DOMAIN new THEN new[id] ELSE old[id]]

\* the classification in _shutdown's finally block
StatusLabel(e) ==
    IF e \in Interruptions THEN "KILLED"
    ELSE IF e # "none" THEN "FAILED"
    ELSE "SUCCEEDED"

\* a variant of the loop condition: poll until the job has succeeded
LoopUntilSucceeded(fs) == fs # "SUCCEEDED"

\* the loop condition: while final_status is FinalStatus.UNDEFINED
LoopContinues(fs) == fs = "UNDEFINED"

RunInit ==
    /\ task_specs \in TaskSpecs
    /\ handling \in Handled
    /\ pc = "start"
    /\ final_status = "UNDEFINED"
    /\ containers = EmptyMap
    /\ exc = "none"
    /\ caught = FALSE
    /\ seen = <<>>
    /\ rm_log = <<>>
    /\ shutdown_args = <<>>
    /\ result = <<>>
    /\ observed = EmptyMap
    /\ dropped = FALSE
    /\ shutdown_exc = "none"
    /\ scope = "out"
    /\ left_by = "none"
    /\ IdleBarrier
    /\ IdleSock
    /\ IdleEnv
    /\ IdleBuild

\* run, lines 134-143: the key check and the two assertions
CheckTaskSpecs ==
    /\ pc = "start"
    /\ IF Validate(task_specs) = "ok"
       THEN /\ pc' = "validated"
            /\ exc' = exc
       ELSE /\ pc' = "raised"
            /\ exc' = Validate(task_specs)
    /\ UNCHANGED <<input_vars, final_status, containers, caught, seen, rm_log,
                   shutdown_args, result, scope, left_by>>
    /\ UNCHANGED <<observed, dropped, shutdown_exc>>
    /\ UNCHANGED <<barrier_vars, sock_vars, env_vars, build_vars>>

\* run, lines 145-197: the services are built locally, then the client opens
OpenClient ==
    /\ pc = "validated"
    /\ pc' = "client"
    /\ rm_log' = Append(rm_log, "Client")
    /\ UNCHANGED <<input_vars, final_status, containers, exc, caught, seen,
                   shutdown_args, result, scope, left_by>>
    /\ UNCHANGED <<observed, dropped, shutdown_exc>>
    /\ UNCHANGED <<barrier_vars, sock_vars, env_vars, build_vars>>

\* client.submit(spec) returns an application id
Submit ==
    /\ pc = "client"
    /\ pc' = "submitted"
    /\ rm_log' = Append(rm_log, "submit")
    /\ UNCHANGED <<input_vars, final_status, containers, exc, caught, seen,
                   shutdown_args, result, scope, left_by>>
    /\ UNCHANGED <<observed, dropped, shutdown_exc>>
    /\ UNCHANGED <<barrier_vars, sock_vars, env_vars, build_vars>>

\* client.submit(spec) raises: the error leaves run
SubmitRaises ==
    /\ pc = "client"
    /\ \E e \in {"ConnectionError", "Error"} :
        /\ pc' = "raised"
        /\ exc' = e
    /\ rm_log' = Append(rm_log, "submit raised")
    /\ UNCHANGED <<input_vars, final_status, containers, caught, seen,
                   shutdown_args, result, scope, left_by>>
    /\ UNCHANGED <<observed, dropped, shutdown_exc>>
    /\ UNCHANGED <<barrier_vars, sock_vars, env_vars, build_vars>>

\* client.connect(app_id) returns; _shutdown(...) is entered and the body
\* initialises its locals
Connect ==
    /\ pc = "submitted"
    /\ pc' = "loop"
    /\ rm_log' = Append(rm_log, "connect")
    /\ scope' = "in"
    /\ final_status' = "UNDEFINED"
    /\ containers' = EmptyMap
    /\ UNCHANGED <<input_vars, exc, caught, seen, shutdown_args, result,
                   left_by>>
    /\ UNCHANGED <<observed, dropped, shutdown_exc>>
    /\ UNCHANGED <<barrier_vars, sock_vars, env_vars, build_vars>>

\* client.connect(app_id) raises, or the process is interrupted inside it:
\* the argument of _shutdown(...) is evaluated before the block is entered
ConnectRaises ==
    /\ pc = "submitted"
    /\ \E e \in {"ConnectionError", "Error"} \cup Interruptions :
        /\ pc' = "raised"
        /\ exc' = e
    /\ rm_log' = Append(rm_log, "connect raised")
    /\ UNCHANGED <<input_vars, final_status, containers, caught, seen,
                   shutdown_args, result, scope, left_by>>
    /\ UNCHANGED <<observed, dropped, shutdown_exc>>
    /\ UNCHANGED <<barrier_vars, sock_vars, env_vars, build_vars>>

\* while final_status is UNDEFINED: time.sleep(poll_every_secs)
Sleep ==
    /\ pc = "loop"
    /\ LoopContinues(final_status)
    /\ Len(seen) < MaxPolls
    /\ pc' = "report"
    /\ UNCHANGED <<input_vars, final_status, containers, exc, caught, seen,
                   rm_log, shutdown_args, result, scope, left_by>>
    /\ UNCHANGED <<observed, dropped, shutdown_exc>>
    /\ UNCHANGED <<barrier_vars, sock_vars, env_vars, build_vars>>

\* the loop condition is false: fall to the return statement
ExitLoop ==
    /\ pc = "loop"
    /\ ~LoopContinues(final_status)
    /\ pc' = "return"
    /\ UNCHANGED <<input_vars, final_status, containers, exc, caught, seen,
                   rm_log, shutdown_args, result, scope, left_by>>
    /\ UNCHANGED <<observed, dropped, shutdown_exc>>
    /\ UNCHANGED <<barrier_vars, sock_vars, env_vars, build_vars>>

\* final_status = client.application_report(app_id).final_status
Report ==
    /\ pc = "report"
    /\ \E s \in FinalStatus :
        /\ final_status' = s
        /\ seen' = Append(seen, s)
    /\ rm_log' = Append(rm_log, "report")
    /\ pc' = "containers"
    /\ UNCHANGED <<input_vars, containers, exc, caught, shutdown_args, result,
                   scope, left_by>>
    /\ UNCHANGED <<observed, dropped, shutdown_exc>>
    /\ UNCHANGED <<barrier_vars, sock_vars, env_vars, build_vars>>

\* for c in app.get_containers(): containers[c.id] = ...
GetContainers ==
    /\ pc = "containers"
    /\ \E cs \in ContainerReports :
        /\ containers' = Merge(containers, cs)
        /\ observed' = [id \in DOMAIN observed \cup DOMAIN cs |->
                            IF id \in DOMAIN cs THEN cs[id] ELSE observed[id]]
        /\ dropped' = (dropped \/ ~(DOMAIN observed \subseteq DOMAIN cs))
    /\ rm_log' = Append(rm_log, "get_containers")
    /\ pc' = "loop"
    /\ UNCHANGED <<input_vars, final_status, exc, caught, seen, shutdown_args,
                   result, scope, left_by, shutdown_exc>>
    /\ UNCHANGED <<barrier_vars, sock_vars, env_vars, build_vars>>

\* the manager call the loop is at, as logged when it raises
RaisedCall == IF pc = "report" THEN "report raised" ELSE "get_containers raised"

\* a variant of the except branch: the ConnectionError is caught and raised
\* again, so it leaves the loop and the with block
PollConnectionErrorReraised ==
    /\ pc \in {"report", "containers"}
    /\ rm_log' = Append(rm_log, RaisedCall)
    /\ caught' = TRUE
    /\ exc' = "ConnectionError"
    /\ left_by' = "ConnectionError"
    /\ pc' = "finally"
    /\ UNCHANGED <<input_vars, final_status, containers, seen, shutdown_args,
                   result, scope>>
    /\ UNCHANGED <<observed, dropped, shutdown_exc>>
    /\ UNCHANGED <<barrier_vars, sock_vars, env_vars, build_vars>>

\* either manager call raises skein.exceptions.ConnectionError: the except
\* branch swallows it and control falls to the return statement
PollConnectionError ==
    /\ pc \in {"report", "containers"}
    /\ rm_log' = Append(rm_log, RaisedCall)
    /\ caught' = TRUE
    /\ pc' = "return"
    /\ UNCHANGED <<input_vars, final_status, containers, exc, seen,
                   shutdown_args, result, scope, left_by>>
    /\ UNCHANGED <<observed, dropped, shutdown_exc>>
    /\ UNCHANGED <<barrier_vars, sock_vars, env_vars, build_vars>>

\* either manager call raises any other error: it escapes the loop
PollError ==
    /\ pc \in {"report", "containers"}
    /\ rm_log' = Append(rm_log, RaisedCall)
    /\ exc' = "Error"
    /\ left_by' = "Error"
    /\ pc' = "finally"
    /\ UNCHANGED <<input_vars, final_status, containers, caught, seen,
                   shutdown_args, result, scope>>
    /\ UNCHANGED <<observed, dropped, shutdown_exc>>
    /\ UNCHANGED <<barrier_vars, sock_vars, env_vars, build_vars>>

\* KeyboardInterrupt or SystemExit raised inside the loop (in the sleep or in
\* either call)
Interrupt ==
    /\ pc \in {"loop", "report", "containers"}
    /\ \E e \in Interruptions :
        /\ exc' = e
        /\ left_by' = e
    /\ pc' = "finally"
    /\ UNCHANGED <<input_vars, final_status, containers, caught, seen, rm_log,
                   shutdown_args, result, scope>>
    /\ UNCHANGED <<observed, dropped, shutdown_exc>>
    /\ UNCHANGED <<barrier_vars, sock_vars, env_vars, build_vars>>

\* return final_status, containers
Return ==
    /\ pc = "return"
    /\ result' = <<final_status, containers>>
    /\ left_by' = "return"
    /\ pc' = "finally"
    /\ UNCHANGED <<input_vars, final_status, containers, exc, caught, seen,
                   rm_log, shutdown_args, scope>>
    /\ UNCHANGED <<observed, dropped, shutdown_exc>>
    /\ UNCHANGED <<barrier_vars, sock_vars, env_vars, build_vars>>

\* sys.exc_info()[1] in the finally block: the exception thrown into the
\* generator, else the one an older frame is handling, else None
ExcInfo == IF exc # "none" THEN exc ELSE handling

\* where control goes once the finally block of _shutdown is over
AfterFinally == IF exc = "none" THEN "returned" ELSE "raised"

\* a variant of the block's exit: cleanup that runs only when the body
\* completed without an exception
ShutdownOnSuccessOnly ==
    /\ pc = "finally"
    /\ IF exc = "none"
       THEN /\ shutdown_args' = Append(shutdown_args, StatusLabel(ExcInfo))
            /\ rm_log' = Append(rm_log, "shutdown")
       ELSE UNCHANGED <<shutdown_args, rm_log>>
    /\ scope' = "left"
    /\ pc' = AfterFinally
    /\ UNCHANGED <<input_vars, final_status, containers, exc, caught, seen,
                   result, left_by>>
    /\ UNCHANGED <<observed, dropped, shutdown_exc>>
    /\ UNCHANGED <<barrier_vars, sock_vars, env_vars, build_vars>>

\* a variant of the finally block: app.shutdown is called outside any try,
\* so its ConnectionError leaves the block in place of what was in flight
ShutdownConnectionErrorEscapes ==
    /\ pc = "finally"
    /\ shutdown_args' = Append(shutdown_args, StatusLabel(ExcInfo))
    /\ rm_log' = Append(rm_log, "shutdown")
    /\ shutdown_exc' = "ConnectionError"
    /\ scope' = "left"
    /\ exc' = "ConnectionError"
    /\ pc' = "raised"
    /\ UNCHANGED <<input_vars, final_status, containers, caught, seen, result,
                   left_by>>
    /\ UNCHANGED <<observed, dropped>>
    /\ UNCHANGED <<barrier_vars, sock_vars, env_vars, build_vars>>

\* _shutdown's finally block: classify, call app.shutdown(status); the call
\* returns
Shutdown ==
    /\ pc = "finally"
    /\ shutdown_args' = Append(shutdown_args, StatusLabel(ExcInfo))
    /\ rm_log' = Append(rm_log, "shutdown")
    /\ scope' = "left"
    /\ pc' = AfterFinally
    /\ UNCHANGED <<input_vars, final_status, containers, exc, caught, seen,
                   result, left_by>>
    /\ UNCHANGED <<observed, dropped, shutdown_exc>>
    /\ UNCHANGED <<barrier_vars, sock_vars, env_vars, build_vars>>

\* _shutdown's finally block: classify, call app.shutdown(status); the call
\* raises ConnectionError, which the except branch swallows
ShutdownConnectionError ==
    /\ pc = "finally"
    /\ shutdown_args' = Append(shutdown_args, StatusLabel(ExcInfo))
    /\ rm_log' = Append(rm_log, "shutdown")
    /\ shutdown_exc' = "ConnectionError"
    /\ scope' = "left"
    /\ pc' = AfterFinally
    /\ UNCHANGED <<input_vars, final_status, containers, exc, caught, seen,
                   result, left_by>>
    /\ UNCHANGED <<observed, dropped>>
    /\ UNCHANGED <<barrier_vars, sock_vars, env_vars, build_vars>>

\* app.shutdown(status) raises an error other than ConnectionError: it
\* leaves the finally block in place of whatever was in flight
ShutdownRaises ==
    /\ pc = "finally"
    /\ shutdown_args' = Append(shutdown_args, StatusLabel(ExcInfo))
    /\ rm_log' = Append(rm_log, "shutdown raised")
    /\ shutdown_exc' = "Error"
    /\ scope' = "left"
    /\ exc' = "Error"
    /\ pc' = "raised"
    /\ UNCHANGED <<input_vars, final_status, containers, caught, seen, result,
                   left_by>>
    /\ UNCHANGED <<observed, dropped>>
    /\ UNCHANGED <<barrier_vars, sock_vars, env_vars, build_vars>>

\* run, lines 201-204: the status and the containers are logged
Finish ==
    /\ pc = "returned"
    /\ pc' = "done"
    /\ UNCHANGED <<input_vars, final_status, containers, exc, caught, seen,
                   rm_log, shutdown_args, result, scope, left_by>>
    /\ UNCHANGED <<observed, dropped, shutdown_exc>>
    /\ UNCHANGED <<barrier_vars, sock_vars, env_vars, build_vars>>

RunNext ==
    \/ CheckTaskSpecs
    \/ OpenClient
    \/ Submit
    \/ SubmitRaises
    \/ Connect
    \/ ConnectRaises
    \/ Sleep
    \/ ExitLoop
    \/ Report
    \/ GetContainers
    \/ PollConnectionError
    \/ PollError
    \/ Interrupt
    \/ Return
    \/ Shutdown
    \/ ShutdownConnectionError
    \/ ShutdownRaises
    \/ Finish

Spec == RunInit /\ [][RunNext]_vars

\* ============================================================== barrier
\* f"{idx}" for the indices the bounds allow
IdxStr == <<"0", "1", "2", "3", "4", "5", "6", "7", "8", "9">>

\* the barrier key f"{role}:{idx}"
Key(role, idx) == role \o ":" \o IdxStr[idx + 1]

\* the task processes of a job: one per instance of each service
TasksOf(nw, np, ne) ==
    {<<"chief", 0>>}
        \cup {<<"ps", i>> : i \in 0..(np - 1)}
        \cup {<<"worker", i>> : i \in 0..(nw - 1)}
        \cup {<<"evaluator", i>> : i \in 0..(ne - 1)}

Tasks == TasksOf(num_workers, num_ps, num_evaluators)
AllTasks == TasksOf(MaxWorkers, MaxPs, MaxEvaluators)

\* the socket address a task reserved for itself and publishes
Addr(t) == "host-" \o Key(t[1], t[2]) \o ":port"

\* a variant of the wait order: the worker loop stops one index short
SlotsMissingLastWorker(nw, np) ==
    <<[role |-> "chief", idx |-> 0]>>
        \o [i \in 1..np |-> [role |-> "ps", idx |-> i - 1]]
        \o [i \in 1..(nw - 1) |-> [role |-> "worker", idx |-> i - 1]]

\* a variant of the wait order: the worker loop counts down
SlotsWorkersReversed(nw, np) ==
    <<[role |-> "chief", idx |-> 0]>>
        \o [i \in 1..np |-> [role |-> "ps", idx |-> i - 1]]
        \o [i \in 1..nw |-> [role |-> "worker", idx |-> nw - i]]

\* a variant of the wait order: the worker loop runs one index too far
SlotsOneWorkerTooMany(nw, np) ==
    <<[role |-> "chief", idx |-> 0]>>
        \o [i \in 1..np |-> [role |-> "ps", idx |-> i - 1]]
        \o [i \in 1..(nw + 1) |-> [role |-> "worker", idx |-> i - 1]]

\* the slots _spec_from_kv waits for, in the order it waits for them:
\* chief:0, then ps:idx for idx in range(num_ps), then worker:idx for idx in
\* range(num_workers)
Slots(nw, np) ==
    <<[role |-> "chief", idx |-> 0]>>
        \o [i \in 1..np |-> [role |-> "ps", idx |-> i - 1]]
        \o [i \in 1..nw |-> [role |-> "worker", idx |-> i - 1]]

\* a variant of the append: the role's list is replaced, spec[role] = [v]
SetDefaultOverwrite(sp, role, v) ==
    [r \in DOMAIN sp \cup {role} |-> IF r = role THEN <<v>> ELSE sp[r]]

\* spec.setdefault(role, []).append(v); the dict literal creates "chief"
SetDefaultAppend(sp, role, v) ==
    [r \in DOMAIN sp \cup {role} |->
        IF r = role
        THEN (IF r \in DOMAIN sp THEN Append(sp[r], v) ELSE <<v>>)
        ELSE sp[r]]

\* kv[key] = value on a store that keeps the first value written to a key
Put(store, key, value) ==
    IF key \in DOMAIN store
    THEN store
    ELSE [k \in DOMAIN store \cup {key} |->
            IF k = key THEN value ELSE store[k]]

BarrierInit ==
    /\ num_workers \in 0..MaxWorkers
    /\ num_ps \in 0..MaxPs
    /\ num_evaluators \in 0..MaxEvaluators
    /\ kv = EmptyMap
    /\ tpc = [t \in Tasks |-> "start"]
    /\ tpos = [t \in Tasks |-> 0]
    /\ spec = [t \in Tasks |-> EmptyMap]
    /\ IdleRun
    /\ IdleSock
    /\ IdleEnv
    /\ IdleBuild

\* a task publishes its own address under its own key, then calls
\* _spec_from_kv
Publish(t) ==
    /\ t \in Tasks
    /\ tpc[t] = "start"
    /\ kv' = Put(kv, Key(t[1], t[2]), Addr(t))
    /\ tpc' = [tpc EXCEPT ![t] = "waiting"]
    /\ UNCHANGED <<num_workers, num_ps, num_evaluators, tpos, spec>>
    /\ UNCHANGED <<run_vars, sock_vars, env_vars, build_vars>>

\* _spec_from_kv from the wait at slot pos on, for as long as the waits
\* return at once (their keys are published): the spec built and the slot
\* reached, which is Len(slots) when the function gets to its return
RECURSIVE RunWaits(_, _, _, _)
RunWaits(store, slots, sp, pos) ==
    IF pos < Len(slots) /\ Key(slots[pos + 1].role, slots[pos + 1].idx) \in DOMAIN store
    THEN RunWaits(store, slots,
                  SetDefaultAppend(sp, slots[pos + 1].role,
                                   store[Key(slots[pos + 1].role, slots[pos + 1].idx)]),
                  pos + 1)
    ELSE [spec |-> sp, pos |-> pos]

\* a variant of the task's step: the task takes its own slot from the address
\* it reserved instead of waiting for its own key
WaitOwnAddr(t) ==
    /\ t \in Tasks
    /\ tpc[t] = "waiting"
    /\ LET slots == Slots(num_workers, num_ps)
           r == RunWaits(kv, slots, spec[t], tpos[t])
           own == IF t[1] \in DOMAIN r.spec /\ t[2] < Len(r.spec[t[1]])
                  THEN [r.spec EXCEPT ![t[1]][t[2] + 1] = Addr(t)]
                  ELSE r.spec
       IN /\ r.pos > tpos[t]
          /\ spec' = [spec EXCEPT ![t] = own]
          /\ tpos' = [tpos EXCEPT ![t] = r.pos]
          /\ tpc' = [tpc EXCEPT ![t] = IF r.pos = Len(slots) THEN "done" ELSE "waiting"]
    /\ UNCHANGED <<num_workers, num_ps, num_evaluators, kv>>
    /\ UNCHANGED <<run_vars, sock_vars, env_vars, build_vars>>

\* a task inside _spec_from_kv runs on: the kv.wait it is in returns (its key
\* has been published), and so does every following wait whose key is already
\* there, until a wait blocks or the function returns spec
Wait(t) ==
    /\ t \in Tasks
    /\ tpc[t] = "waiting"
    /\ LET slots == Slots(num_workers, num_ps)
           r == RunWaits(kv, slots, spec[t], tpos[t])
       IN /\ r.pos > tpos[t]
          /\ spec' = [spec EXCEPT ![t] = r.spec]
          /\ tpos' = [tpos EXCEPT ![t] = r.pos]
          /\ tpc' = [tpc EXCEPT ![t] = IF r.pos = Len(slots) THEN "done" ELSE "waiting"]
    /\ UNCHANGED <<num_workers, num_ps, num_evaluators, kv>>
    /\ UNCHANGED <<run_vars, sock_vars, env_vars, build_vars>>

BarrierNext ==
    \E t \in AllTasks :
        \/ Publish(t)
        \/ Wait(t)

BarrierSpec == BarrierInit /\ [][BarrierNext]_vars

\* the task processes keep running: while some wait can return, one does
AnyWait == \E t \in AllTasks : Wait(t)

BarrierFair == BarrierSpec /\ WF_vars(AnyWait)

\* another address for a task's key: what a second attempt of the task, on
\* another port or host, would publish
AltAddr(t) == "retry-" \o Key(t[1], t[2]) \o ":port"

\* some process writes another value under a task's key; the store keeps the
\* value it has, if it has one
Republish(t) ==
    /\ t \in Tasks
    /\ kv' = Put(kv, Key(t[1], t[2]), AltAddr(t))
    /\ UNCHANGED <<num_workers, num_ps, num_evaluators, tpc, tpos, spec>>
    /\ UNCHANGED <<run_vars, sock_vars, env_vars, build_vars>>

RepublishNext ==
    \E t \in AllTasks :
        \/ Publish(t)
        \/ Republish(t)
        \/ Wait(t)

RepublishSpec == BarrierInit /\ [][RepublishNext]_vars

\* ================================================================ sockets
\* socket.gethostname()
host == "host"

\* the ports the operating system hands out for bind(("", 0))
Ports == 1..NumPorts

\* f"{host}:{port}"
Endpoint(h, port) == h \o ":" \o IdxStr[port + 1]

\* the ports of the sockets the ExitStack holds (0: a socket whose bind failed)
HeldPorts == {stack[i].port : i \in DOMAIN stack} \ {0}

\* the ports no open socket of the host is bound to
FreePorts == Ports \ (HeldPorts \cup others)

SockInit ==
    /\ gen = "created"
    /\ stack = <<>>
    /\ others \in SUBSET Ports
    /\ yielded = <<>>
    /\ IdleRun
    /\ IdleBarrier
    /\ IdleEnv
    /\ IdleBuild

\* the consumer asks for the next address: the generator body runs on
NextAddr ==
    /\ gen \in {"created", "suspended"}
    /\ gen' = "running"
    /\ UNCHANGED <<stack, others, yielded>>
    /\ UNCHANGED <<run_vars, barrier_vars, env_vars, build_vars>>

\* a variant of one pass of the loop: the socket is kept in a local only, so
\* the socket of the pass before is closed when the local is rebound
BindOkDropPrevious(port) ==
    /\ gen = "running"
    /\ Len(stack) < MaxSockets
    /\ port \in FreePorts
    /\ stack' = <<[port |-> port]>>
    /\ yielded' = Append(yielded, Endpoint(host, port))
    /\ gen' = "suspended"
    /\ UNCHANGED others
    /\ UNCHANGED <<run_vars, barrier_vars, env_vars, build_vars>>

\* one pass of the loop: a socket is created and entered into the stack, the
\* bind succeeds on a free port and the address is yielded
BindOk(port) ==
    /\ gen = "running"
    /\ Len(stack) < MaxSockets
    /\ port \in FreePorts
    /\ stack' = Append(stack, [port |-> port])
    /\ yielded' = Append(yielded, Endpoint(host, port))
    /\ gen' = "suspended"
    /\ UNCHANGED others
    /\ UNCHANGED <<run_vars, barrier_vars, env_vars, build_vars>>

\* one pass of the loop: the bind fails with EADDRINUSE (no port is free);
\* the socket stays in the stack and the loop continues
BindInUse ==
    /\ gen = "running"
    /\ Len(stack) < MaxSockets
    /\ FreePorts = {}
    /\ stack' = Append(stack, [port |-> 0])
    /\ UNCHANGED <<gen, others, yielded>>
    /\ UNCHANGED <<run_vars, barrier_vars, env_vars, build_vars>>

\* one pass of the loop: the bind fails with another error, which leaves the
\* generator through the ExitStack: every socket entered is closed
BindFatal ==
    /\ gen = "running"
    /\ Len(stack) < MaxSockets
    /\ stack' = <<>>
    /\ gen' = "raised"
    /\ UNCHANGED <<others, yielded>>
    /\ UNCHANGED <<run_vars, barrier_vars, env_vars, build_vars>>

\* a variant of leaving the generator: only the socket of the last pass is
\* closed (a with block around each socket, no stack)
CloseLastOnly ==
    /\ gen \in {"created", "suspended"}
    /\ stack' = SubSeq(stack, 1, Len(stack) - 1)
    /\ gen' = "closed"
    /\ UNCHANGED <<others, yielded>>
    /\ UNCHANGED <<run_vars, barrier_vars, env_vars, build_vars>>

\* the consumer closes the generator (or drops it): GeneratorExit leaves it
\* through the ExitStack
Close ==
    /\ gen \in {"created", "suspended"}
    /\ stack' = <<>>
    /\ gen' = "closed"
    /\ UNCHANGED <<others, yielded>>
    /\ UNCHANGED <<run_vars, barrier_vars, env_vars, build_vars>>

\* the consumer throws an exception into the generator at its yield: it
\* leaves the generator through the ExitStack
Throw ==
    /\ gen = "suspended"
    /\ stack' = <<>>
    /\ gen' = "raised"
    /\ UNCHANGED <<others, yielded>>
    /\ UNCHANGED <<run_vars, barrier_vars, env_vars, build_vars>>

\* another process of the host binds a free port
OtherBinds(port) ==
    /\ gen \in {"created", "running", "suspended"}
    /\ port \in FreePorts
    /\ others' = others \cup {port}
    /\ UNCHANGED <<gen, stack, yielded>>
    /\ UNCHANGED <<run_vars, barrier_vars, env_vars, build_vars>>

\* another process of the host closes a socket
OtherReleases(port) ==
    /\ gen \in {"created", "running", "suspended"}
    /\ port \in others
    /\ others' = others \ {port}
    /\ UNCHANGED <<gen, stack, yielded>>
    /\ UNCHANGED <<run_vars, barrier_vars, env_vars, build_vars>>

SockNext ==
    \/ NextAddr
    \/ \E port \in Ports : BindOk(port)
    \/ BindInUse
    \/ BindFatal
    \/ Close
    \/ Throw
    \/ \E port \in Ports : OtherBinds(port)
    \/ \E port \in Ports : OtherReleases(port)

SockSpec == SockInit /\ [][SockNext]_vars

\* ============================================================ xset_environ
\* the variable names the bounds allow
NameStr == <<"A", "B", "C">>
Names == {NameStr[i] : i \in 1..NumNames}

\* the values of a variable; a variable can be set to the empty string
EnvValues == {"", "x", "y"}

\* the states of os.environ
Environs == UNION {[D -> EnvValues] : D \in SUBSET Names}

\* **kwargs: a dict, so names are distinct and iteration is in call order
KwargsSet ==
    {q \in UNION {[1..n -> Names \X EnvValues] : n \in 0..NumNames} :
        \A i, j \in DOMAIN q : i # j => q[i][1] # q[j][1]}

KwargsNames == {kwargs[i][1] : i \in DOMAIN kwargs}

\* the loop over kwargs.items() from item i on: os.environ[key] raises
\* KeyError when key is not set, and a value that is set and not empty
\* raises RuntimeError; "none" when the loop runs to its end
RECURSIVE CheckItems(_, _, _)
CheckItems(env, kw, i) ==
    IF i > Len(kw) THEN "none"
    ELSE IF kw[i][1] \notin DOMAIN env THEN "KeyError"
    ELSE IF env[kw[i][1]] # "" THEN "RuntimeError"
    ELSE CheckItems(env, kw, i + 1)

\* os.environ.update(kwargs)
Update(env, kw) ==
    [k \in DOMAIN env \cup {kw[i][1] : i \in DOMAIN kw} |->
        IF \E i \in DOMAIN kw : kw[i][1] = k
        THEN (CHOOSE v \in EnvValues : \E i \in DOMAIN kw : kw[i] = <<k, v>>)
        ELSE env[k]]

\* os.environ.pop(key) on a key that is set
Pop(env, key) == [k \in DOMAIN env \ {key} |-> env[k]]

\* the loop over kwargs after the yield, from item i on: each key is popped,
\* and the first key that is missing raises RuntimeError and ends the loop
RECURSIVE PopItems(_, _, _)
PopItems(env, kw, i) ==
    IF i > Len(kw) THEN [env |-> env, exc |-> "none"]
    ELSE IF kw[i][1] \notin DOMAIN env THEN [env |-> env, exc |-> "RuntimeError"]
    ELSE PopItems(Pop(env, kw[i][1]), kw, i + 1)

EnvInit ==
    /\ environ \in Environs
    /\ kwargs \in KwargsSet
    /\ xpc = "call"
    /\ xexc = "none"
    /\ environ0 = environ
    /\ updated = {}
    /\ IdleRun
    /\ IdleBarrier
    /\ IdleSock
    /\ IdleBuild

\* with xset_environ(**kwargs): the check loop finds nothing, the variables
\* are set and the body starts
EnterOk ==
    /\ xpc = "call"
    /\ CheckItems(environ, kwargs, 1) = "none"
    /\ environ' = Update(environ, kwargs)
    /\ updated' = KwargsNames
    /\ xpc' = "inside"
    /\ UNCHANGED <<kwargs, xexc, environ0>>
    /\ UNCHANGED <<run_vars, barrier_vars, sock_vars, build_vars>>

\* with xset_environ(**kwargs): the check loop raises, nothing is set
EnterRaises ==
    /\ xpc = "call"
    /\ CheckItems(environ, kwargs, 1) # "none"
    /\ xexc' = CheckItems(environ, kwargs, 1)
    /\ xpc' = "failed"
    /\ UNCHANGED <<environ, kwargs, environ0, updated>>
    /\ UNCHANGED <<run_vars, barrier_vars, sock_vars, build_vars>>

\* the body of the with block removes a variable from the environment
BodyUnsets(key) ==
    /\ xpc = "inside"
    /\ key \in DOMAIN environ
    /\ environ' = Pop(environ, key)
    /\ UNCHANGED <<kwargs, xpc, xexc, environ0, updated>>
    /\ UNCHANGED <<run_vars, barrier_vars, sock_vars, build_vars>>

\* the body of the with block raises: the exception is thrown into the
\* generator at its yield, which is in no try block, and leaves it there
BodyRaises ==
    /\ xpc = "inside"
    /\ xexc' = "BodyError"
    /\ xpc' = "raised"
    /\ UNCHANGED <<environ, kwargs, environ0, updated>>
    /\ UNCHANGED <<run_vars, barrier_vars, sock_vars, build_vars>>

\* the body of the with block returns: the generator runs on after the
\* yield and pops every key
ExitOk ==
    /\ xpc = "inside"
    /\ PopItems(environ, kwargs, 1).exc = "none"
    /\ environ' = PopItems(environ, kwargs, 1).env
    /\ xpc' = "left"
    /\ UNCHANGED <<kwargs, xexc, environ0, updated>>
    /\ UNCHANGED <<run_vars, barrier_vars, sock_vars, build_vars>>

\* the body of the with block returns: the pop loop meets a key that is
\* missing and raises RuntimeError; the keys after it are not popped
ExitMissing ==
    /\ xpc = "inside"
    /\ PopItems(environ, kwargs, 1).exc # "none"
    /\ environ' = PopItems(environ, kwargs, 1).env
    /\ xexc' = PopItems(environ, kwargs, 1).exc
    /\ xpc' = "raised"
    /\ UNCHANGED <<kwargs, environ0, updated>>
    /\ UNCHANGED <<run_vars, barrier_vars, sock_vars, build_vars>>

EnvNext ==
    \/ EnterOk
    \/ EnterRaises
    \/ \E key \in Names : BodyUnsets(key)
    \/ BodyRaises
    \/ ExitOk
    \/ ExitMissing

EnvSpec == EnvInit /\ [][EnvNext]_vars

\* ====================================================== the spec builders
\* the slots _spec_from_iter fills, in the order it draws from the iterator:
\* chief, then num_workers workers, then num_ps ps
IterSlots(nw, np) ==
    <<[role |-> "chief", idx |-> 0]>>
        \o [i \in 1..nw |-> [role |-> "worker", idx |-> i - 1]]
        \o [i \in 1..np |-> [role |-> "ps", idx |-> i - 1]]

\* the addresses a pre-populated iterator hands out: as many as the largest
\* job needs, each one once
AddrPool == {Endpoint(host, port) : port \in 1..(1 + MaxWorkers + MaxPs)}

Reservations ==
    {q \in [1..(1 + MaxWorkers + MaxPs) -> AddrPool] :
        \A i, j \in DOMAIN q : i # j => q[i] # q[j]}

\* the store once every task of the job has published its address
Published(nw, np) ==
    [k \in {Key(t[1], t[2]) : t \in TasksOf(nw, np, 0)} |->
        Addr(CHOOSE t \in TasksOf(nw, np, 0) : k = Key(t[1], t[2]))]

BuildInit ==
    /\ n_workers \in 0..MaxWorkers
    /\ n_ps \in 0..MaxPs
    /\ reserved \in Reservations
    /\ kv_store = Published(n_workers, n_ps)
    /\ iter_spec = EmptyMap
    /\ iter_log = <<>>
    /\ kv_spec = EmptyMap
    /\ kv_log = <<>>
    /\ IdleRun
    /\ IdleBarrier
    /\ IdleSock
    /\ IdleEnv

\* _spec_from_iter draws its next address: next(reserved) goes to the slot
\* the function has reached
IterDraw ==
    /\ Len(iter_log) < Len(IterSlots(n_workers, n_ps))
    /\ LET slot == IterSlots(n_workers, n_ps)[Len(iter_log) + 1]
       IN /\ iter_spec' = SetDefaultAppend(iter_spec, slot.role, Head(reserved))
          /\ iter_log' = Append(iter_log, slot)
    /\ reserved' = Tail(reserved)
    /\ UNCHANGED <<n_workers, n_ps, kv_store, kv_spec, kv_log>>
    /\ UNCHANGED <<run_vars, barrier_vars, sock_vars, env_vars>>

\* _spec_from_kv's next wait returns: the value stored under the key of the
\* slot the function has reached goes to that slot
KvWait ==
    /\ Len(kv_log) < Len(Slots(n_workers, n_ps))
    /\ LET slot == Slots(n_workers, n_ps)[Len(kv_log) + 1]
       IN /\ kv_spec' = SetDefaultAppend(kv_spec, slot.role,
                                         kv_store[Key(slot.role, slot.idx)])
          /\ kv_log' = Append(kv_log, slot)
    /\ UNCHANGED <<n_workers, n_ps, reserved, kv_store, iter_spec, iter_log>>
    /\ UNCHANGED <<run_vars, barrier_vars, sock_vars, env_vars>>

BuildNext ==
    \/ IterDraw
    \/ KvWait

BuildSpec == BuildInit /\ [][BuildNext]_vars

\* ================================================================= claims
\* how often call x was made to the resource manager
Count(log, x) == Cardinality({i \in DOMAIN log : log[i] = x})
\* run is over: it returned or an exception left it
RunOver == pc \in {"done", "raised"}

\* C1: once the with _shutdown(...) block has been entered, app.shutdown is
\* called exactly once on every way out of it (return of the poll loop, an
\* interruption inside the loop, any other error escaping the loop), and not
\* before the block is left.
C1_ShutdownExactlyOnce ==
    /\ (scope # "out" /\ pc \in {"returned", "done", "raised"}) => scope = "left"
    /\ scope = "left" =>
          /\ Len(shutdown_args) = 1
          /\ Count(rm_log, "shutdown") + Count(rm_log, "shutdown raised") = 1
    /\ scope # "left" => Len(shutdown_args) = 0

\* an interruption inside the loop left run, and app.shutdown was called once
C1_Witness ==
    /\ pc = "raised"
    /\ left_by = "KeyboardInterrupt"
    /\ scope = "left"
    /\ Len(shutdown_args) = 1

\* C2 (as claimed): the label passed to app.shutdown is KILLED exactly when an
\* interruption left the block, FAILED exactly when another error left it,
\* SUCCEEDED exactly when the body returned.
C2_LabelByExit ==
    scope = "left" =>
        /\ shutdown_args[1] = "KILLED" <=> left_by \in Interruptions
        /\ shutdown_args[1] = "FAILED" <=> left_by = "Error"
        /\ shutdown_args[1] = "SUCCEEDED" <=> left_by = "return"

\* C3: with no error, a report sequence of k-1 UNDEFINED and then a terminal
\* status T is queried exactly k times, T is returned, no report follows a
\* terminal one, and final_status never changes once it is terminal.
C3_PollsUntilTerminal ==
    /\ [](/\ \A i \in 1..(Len(seen) - 1) : seen[i] = "UNDEFINED"
          /\ (pc \in {"returned", "done"} /\ ~caught) =>
                /\ Len(seen) >= 1
                /\ seen[Len(seen)] \in Terminal
                /\ result[1] = seen[Len(seen)]
                /\ Count(rm_log, "report") = Len(seen)
                /\ Count(rm_log, "report raised") = 0)
    /\ [][final_status # "UNDEFINED" => final_status' = final_status]_vars

\* UNDEFINED, UNDEFINED, SUCCEEDED: returned on the third poll
C3_Witness ==
    /\ pc = "done"
    /\ ~caught
    /\ seen = <<"UNDEFINED", "UNDEFINED", "SUCCEEDED">>
    /\ result[1] = "SUCCEEDED"

\* C4 (as claimed): whenever submit returned a job id, app.shutdown has been
\* called by the time run is over, whatever ended it.
C4_TerminateBeforeRunEnds ==
    (Count(rm_log, "submit") = 1 /\ RunOver) => Len(shutdown_args) >= 1

\* C5: a job specification whose chief count is not 1 (an absent chief
\* included) or that has a key outside the four task types makes run raise
\* before any call to the resource manager.
C5_MalformedRejectedFirst ==
    (\/ "chief" \notin DOMAIN task_specs
     \/ task_specs["chief"] # 1
     \/ \E k \in DOMAIN task_specs : k \notin {"chief", "worker", "ps", "evaluator"})
    => /\ rm_log = <<>>
       /\ pc \in {"start", "raised"}
       /\ pc = "raised" => exc \in {"ValueError", "AssertionError"}

\* a specification without a chief entry was rejected by the assertion
C5_Witness ==
    /\ "chief" \notin DOMAIN task_specs
    /\ DOMAIN task_specs = {"worker", "ps"}
    /\ pc = "raised"
    /\ exc = "AssertionError"
    /\ rm_log = <<>>

\* the keys _spec_from_kv needs: chief:0, ps:i for i < num_ps, worker:i for
\* i < num_workers
RequiredKeys ==
    {Key("chief", 0)}
        \cup {Key("ps", i) : i \in 0..(num_ps - 1)}
        \cup {Key("worker", i) : i \in 0..(num_workers - 1)}
\* the instances the job has of a role
InstancesOf(role) ==
    CASE role = "chief" -> 1
      [] role = "ps" -> num_ps
      [] role = "worker" -> num_workers
      [] role = "evaluator" -> num_evaluators
AllPublished == \A t \in Tasks : Key(t[1], t[2]) \in DOMAIN kv
AllReturned == \A t \in Tasks : tpc[t] = "done"

\* C6: a task's _spec_from_kv has returned only if every required key is
\* published (so it never returns while one is missing), and a task that has
\* not returned holds no more than the values of the keys published so far;
\* the spec handed back has a value for every required key.
C6_ReturnsOnlyAfterAllPublished ==
    \A t \in Tasks :
        /\ tpc[t] = "done" =>
              /\ RequiredKeys \subseteq DOMAIN kv
              /\ tpos[t] = Cardinality(RequiredKeys)
        /\ tpc[t] # "done" =>
              \/ tpos[t] < Cardinality(RequiredKeys)
              \/ ~(RequiredKeys \subseteq DOMAIN kv)

\* one task has returned while another is still blocked behind it, in a job
\* of a chief, two workers and a ps
C6_Witness ==
    /\ num_workers = 2
    /\ num_ps = 1
    /\ tpc[<<"worker", 1>>] = "done"
    /\ tpc[<<"chief", 0>>] = "waiting"
    /\ tpos[<<"chief", 0>>] = 1

\* C7: once every task has published its address, every task's
\* _spec_from_kv eventually returns.
C7_AllPublishedLeadsToAllReturned == AllPublished ~> AllReturned

\* the five tasks of a job with two workers, a ps and an evaluator have all
\* returned
C7_Witness ==
    /\ num_workers = 2
    /\ num_ps = 1
    /\ num_evaluators = 1
    /\ AllPublished
    /\ AllReturned

\* C8 (as claimed): a returned spec has one chief endpoint and, for each of
\* worker, ps and evaluator with instances > 0, exactly that many endpoints.
C8_EveryRoleHasItsEndpoints ==
    \A t \in Tasks :
        tpc[t] = "done" =>
            /\ Len(spec[t]["chief"]) = 1
            /\ \A role \in {"worker", "ps", "evaluator"} :
                  InstancesOf(role) > 0 =>
                      /\ role \in DOMAIN spec[t]
                      /\ Len(spec[t][role]) = InstancesOf(role)

\* C8 (amended): a returned spec has one chief endpoint and, for each of
\* worker and ps with instances > 0, exactly that many endpoints; it has no
\* entry for the evaluator, whatever the evaluator's instance count.
C8_TrainingRolesHaveTheirEndpoints ==
    \A t \in Tasks :
        tpc[t] = "done" =>
            /\ Len(spec[t]["chief"]) = 1
            /\ \A role \in {"worker", "ps"} :
                  InstancesOf(role) > 0 =>
                      /\ role \in DOMAIN spec[t]
                      /\ Len(spec[t][role]) = InstancesOf(role)
            /\ "evaluator" \notin DOMAIN spec[t]

\* the evaluator of a job with an evaluator, two workers and a ps has its spec
C8_Witness ==
    /\ num_evaluators = 1
    /\ num_workers = 2
    /\ num_ps = 1
    /\ tpc[<<"evaluator", 0>>] = "done"

\* C9: in a returned spec, position i of role r (chief, ps, worker) is the
\* value the store holds under key "r:i", the address task r:i published.
C9_IndexStable ==
    \A t \in Tasks :
        tpc[t] = "done" =>
            \A role \in {"chief", "ps", "worker"} :
                \A i \in 0..(InstancesOf(role) - 1) :
                    /\ spec[t][role][i + 1] = kv[Key(role, i)]
                    /\ spec[t][role][i + 1] = Addr(<<role, i>>)

\* worker 1 published before worker 0 did, and worker 1's spec lists worker
\* 0 first
C9_Witness ==
    /\ num_workers = 2
    /\ tpc[<<"worker", 1>>] = "done"
    /\ tpc[<<"worker", 0>>] = "waiting"
    /\ tpos[<<"worker", 0>>] = 0
    /\ spec[<<"worker", 1>>]["worker"] = <<Addr(<<"worker", 0>>), Addr(<<"worker", 1>>)>>

\* C10: the endpoints one generator has yielded are pairwise distinct, and
\* while the generator is open each is backed by a socket the stack holds.
C10_YieldedDistinct ==
    /\ \A i, j \in DOMAIN yielded : i # j => yielded[i] # yielded[j]
    /\ gen \in {"running", "suspended"} =>
          \A i \in DOMAIN yielded :
              \E port \in HeldPorts : yielded[i] = Endpoint(host, port)

\* three addresses drawn from one generator: every port of the host is held
C10_Witness ==
    /\ gen = "suspended"
    /\ Len(yielded) = 3
    /\ others = {}

\* C11: once the generator is over (closed or dropped by the consumer, an
\* exception thrown into it, a fatal bind error raised out of it), none of
\* the sockets it created is still open, those whose bind failed with
\* EADDRINUSE included.
C11_AllSocketsReleased ==
    gen \in {"closed", "raised"} => stack = <<>>

\* a generator closed by its consumer after it yielded two addresses
C11_Witness ==
    /\ gen = "closed"
    /\ Len(yielded) = 2
    /\ stack = <<>>

\* the names of kwargs that were set when xset_environ was called
PresentAtCall == KwargsNames \cap DOMAIN environ0

\* xset_environ has been entered or has failed to enter
EnterDone == xpc \in {"inside", "left", "raised", "failed"}

\* C12: when no name of the mapping is set in the environment at the call,
\* entering xset_environ does not fail, and inside the scope the names of the
\* mapping hold the values given.
C12_AbsentNamesAreSet ==
    (EnterDone /\ PresentAtCall = {}) =>
        /\ xpc # "failed"
        /\ xpc = "inside" =>
              \A i \in DOMAIN kwargs :
                  kwargs[i][1] \in DOMAIN environ => environ[kwargs[i][1]] = kwargs[i][2]

\* C13: when some name of the mapping is set in the environment at the call,
\* whatever its value, entering xset_environ fails and the environment is as
\* it was at the call.
C13_PresentNameFailsUntouched ==
    (EnterDone /\ PresentAtCall # {}) =>
        /\ xpc = "failed"
        /\ environ = environ0

\* C14: once the scope is left, by the body returning or by an exception, no
\* variable the scope set is in the environment.
C14_SetNamesAbsentAfterExit ==
    xpc \in {"left", "raised"} => updated \cap DOMAIN environ = {}

\* slot a is resolved before slot b in the order chief, ps by index, worker
\* by index
RoleRank(role) == IF role = "chief" THEN 0 ELSE IF role = "ps" THEN 1 ELSE 2

Before(a, b) ==
    \/ RoleRank(a.role) < RoleRank(b.role)
    \/ a.role = b.role /\ a.idx < b.idx

InClaimedOrder(log) ==
    \A j, k \in DOMAIN log : j < k => Before(log[j], log[k])

\* C15: each builder fills the chief slot first, then the ps slots by
\* increasing index, then the worker slots by increasing index, so the j-th
\* value drawn goes to the same slot in both builders.
C15_SameDrawOrder ==
    /\ InClaimedOrder(iter_log)
    /\ InClaimedOrder(kv_log)
    /\ \A j \in DOMAIN iter_log \cap DOMAIN kv_log : iter_log[j] = kv_log[j]

\* the final status last read from the manager (UNDEFINED before any report)
LastSeen == IF seen = <<>> THEN "UNDEFINED" ELSE seen[Len(seen)]

\* the polls of the loop, as logged
PollCalls == {"report", "get_containers", "report raised", "get_containers raised"}

\* C16: a ConnectionError raised by application_report or get_containers in
\* the poll loop does not leave _await_termination: no poll follows it, the
\* function returns, and it returns the final status last read (UNDEFINED
\* when none was read) with every container record merged so far.
C16_ConnectionErrorEndsLoopNormally ==
    caught =>
        /\ rm_log[Len(rm_log)] \in PollCalls =>
              rm_log[Len(rm_log)] \in {"report raised", "get_containers raised"}
        /\ Count(rm_log, "report raised") + Count(rm_log, "get_containers raised") = 1
        /\ pc = "return" => exc = "none"
        /\ pc # "return" =>
              /\ left_by = "return"
              /\ result = <<LastSeen, observed>>

\* the second poll read UNDEFINED and its container query raised
\* ConnectionError: run ended normally with UNDEFINED and the containers of
\* the first poll
C16_Witness ==
    /\ caught
    /\ pc = "done"
    /\ seen = <<"UNDEFINED", "UNDEFINED">>
    /\ Count(rm_log, "get_containers raised") = 1
    /\ result[1] = "UNDEFINED"
    /\ DOMAIN result[2] = ContainerIds

\* C17: a ConnectionError raised by app.shutdown is swallowed: control goes
\* on as the with block was left (a return returns its result, an exception
\* or interruption in flight propagates); any other error raised by
\* app.shutdown leaves run.
C17_ShutdownConnectionErrorSwallowed ==
    /\ shutdown_exc = "ConnectionError" =>
          IF left_by = "return"
          THEN /\ pc \in {"returned", "done"}
               /\ exc = "none"
               /\ result # <<>>
          ELSE /\ pc = "raised"
               /\ exc = left_by
    /\ shutdown_exc = "Error" =>
          /\ pc = "raised"
          /\ exc = "Error"

\* KeyboardInterrupt left the loop, app.shutdown raised ConnectionError, and
\* KeyboardInterrupt is what left run
C17_Witness ==
    /\ shutdown_exc = "ConnectionError"
    /\ left_by = "KeyboardInterrupt"
    /\ pc = "raised"
    /\ exc = "KeyboardInterrupt"

\* C18: the container ids recorded only grow from poll to poll, and each id
\* ever reported is recorded with the state of the latest poll that reported
\* it, also when later polls do not report it.
C18_RecordsNeverDropped ==
    /\ [](containers = observed)
    /\ [][DOMAIN containers \subseteq DOMAIN containers']_vars

\* a container of an earlier poll is missing from a later one and is still
\* recorded
C18_Witness ==
    /\ dropped
    /\ Len(seen) >= 2
    /\ DOMAIN containers = ContainerIds

\* C19: app.shutdown is called with SUCCEEDED only when the final status
\* last read from the manager is SUCCEEDED.
C19_SucceededOnlyAfterSucceededReport ==
    \A i \in DOMAIN shutdown_args :
        shutdown_args[i] = "SUCCEEDED" => LastSeen = "SUCCEEDED"

\* C20: any two tasks of a job whose _spec_from_kv has returned hold the same
\* cluster spec, whatever the order of the publishes, of the waits and of the
\* writes of another value to a key.
C20_ReturnedSpecsIdentical ==
    \A t, u \in Tasks :
        (tpc[t] = "done" /\ tpc[u] = "done") => spec[t] = spec[u]

\* the chief and a worker have returned, a key was first written with the
\* other value and a later publish of that key changed nothing
C20_Witness ==
    /\ num_workers >= 1
    /\ tpc[<<"chief", 0>>] = "done"
    /\ tpc[<<"worker", 0>>] = "done"
    /\ spec[<<"chief", 0>>]["worker"][1] = AltAddr(<<"worker", 0>>)
    /\ spec[<<"worker", 0>>]["chief"][1] = Addr(<<"chief", 0>>)

====
